---- MODULE Spec2Model ----
(***************************************************************************)
(* A model of src/database.py: the DatabaseManager facade over the "users" *)
(* collections of three backends, its CRUD operations and the batch        *)
(* migration sync_mongodb_to_hcd.                                          *)
(*                                                                         *)
(* One behaviour is one process: its environment (DATABASE_TYPE and the    *)
(* backend settings), the facade `self` constructed from it, and the       *)
(* backends' collections, which exist outside the process and may hold     *)
(* records before it starts.  A document is [_id, name]; a collection is   *)
(* the sequence of its documents in natural (insertion) order.             *)
(***************************************************************************)
EXTENDS Integers, Sequences, FiniteSets, TLC

VARIABLES
    env,            \* os.environ: DATABASE_TYPE and which backend settings are complete
    db_type,        \* self.db_type
    collection,     \* self.collection: the backend whose "users" collection self is bound to
    coll,           \* the "users" collection of every backend
    pc,             \* "idle", or "loop" while sync_mongodb_to_hcd iterates its cursor
    cursor,         \* number of documents the migration's cursor has yielded
    batch,          \* sync_mongodb_to_hcd: batch
    total_synced,   \* sync_mongodb_to_hcd: total_synced
    errors,         \* sync_mongodb_to_hcd: errors (before the truncation to 5)
    hcd_manager,    \* sync_mongodb_to_hcd: the temporary destination facade, or NoManager
    ret,            \* what the last facade call returned or raised
    nops,           \* facade calls made so far (bounded by MaxOps)
    constructed,    \* history: the selector each facade instance had when __init__ returned
    explicit,       \* history: documents created with an explicit key and not deleted since
    deleted,        \* history: keys delete_user removed, not created again since
    inserts         \* history: the bulk inserts of the current/last migration, in order

vars == << env, db_type, collection, coll, pc, cursor, batch, total_synced, errors,
           hcd_manager, ret, nops, constructed, explicit, deleted, inserts >>

(***************************************************************************)
(* Program constants and the bounds of the model.                          *)
(***************************************************************************)
batch_size == 100

ErrorsReturned == 5

MaxSource == 250

DupKey == 150

MaxOps == 3

NumUuids == 1

Backends == {"mongodb", "hcd", "astra"}

NoKey == 0

Names == {"a", "b"}

CrudKeys == {DupKey}

Uuids == (MaxSource + 1)..(MaxSource + NumUuids)

SourceSizes == {0, batch_size, MaxSource}

Doc(k, v) == [_id |-> k, name |-> v]

NoneVal == [none |-> TRUE]

NoManager == [none |-> TRUE]

DuplicateKeyError == "DuplicateKeyError"

CursorError == "CursorError"

HcdConfigError == "HCD configuration incomplete. Check HCD_API_ENDPOINT, HCD_USERNAME, and HCD_PASSWORD"

AstraConfigError == "Astra DB configuration incomplete. Check ASTRA_DB_ID, ASTRA_DB_REGION, and ASTRA_DB_TOKEN"

UnsupportedError == "Unsupported database type"

(***************************************************************************)
(* The collection API the facade calls (pymongo / astrapy collections).    *)
(***************************************************************************)
Ids(c) == {c[i]._id : i \in 1..Len(c)}

HasKey(c, k) == \E i \in 1..Len(c) : c[i]._id = k

FirstIndex(c, k) == CHOOSE i \in 1..Len(c) : c[i]._id = k /\ \A j \in 1..(i - 1) : c[j]._id # k

Remove(c, i) == SubSeq(c, 1, i - 1) \o SubSeq(c, i + 1, Len(c))

\* collection.find_one({"_id": user_id}): the document, or None
find_one_first(c, k) == IF c = <<>> THEN NoneVal ELSE c[1]

find_one(c, k) == IF HasKey(c, k) THEN c[FirstIndex(c, k)] ELSE NoneVal

\* collection.insert_one(doc): raises on a duplicate _id and stores nothing
insert_one_overwrite(c, doc) ==
    IF HasKey(c, doc._id)
    THEN [raised |-> "none", coll |-> [c EXCEPT ![FirstIndex(c, doc._id)] = doc]]
    ELSE [raised |-> "none", coll |-> Append(c, doc)]

insert_one(c, doc) ==
    IF HasKey(c, doc._id)
    THEN [raised |-> DuplicateKeyError, coll |-> c]
    ELSE [raised |-> "none", coll |-> Append(c, doc)]

\* collection.delete_one({"_id": user_id}): removes at most one document
delete_one_keep(c, k) ==
    IF HasKey(c, k)
    THEN [deleted_count |-> 1, coll |-> c]
    ELSE [deleted_count |-> 0, coll |-> c]

delete_one(c, k) ==
    IF HasKey(c, k)
    THEN [deleted_count |-> 1, coll |-> Remove(c, FirstIndex(c, k))]
    ELSE [deleted_count |-> 0, coll |-> c]

\* collection.find({}): every document, in natural order
find_all(c) == c

(***************************************************************************)
(* collection.insert_many(docs).  It raises when a document's _id is       *)
(* already stored (or repeated in docs); which of the other documents of   *)
(* docs are stored by then depends on the backend's mode: none, those      *)
(* before the first duplicate (ordered), or all the others (unordered).    *)
(* A stored _id is never overwritten.                                      *)
(***************************************************************************)
IsDup(c, docs, i) == HasKey(c, docs[i]._id) \/ \E j \in 1..(i - 1) : docs[j]._id = docs[i]._id

FirstDup(c, docs) == CHOOSE i \in 1..Len(docs) : IsDup(c, docs, i) /\ \A j \in 1..(i - 1) : ~IsDup(c, docs, j)

NonDups(c, docs) ==
    LET indexed == [i \in 1..Len(docs) |-> << i, docs[i] >>]
        kept == SelectSeq(indexed, LAMBDA p : ~IsDup(c, docs, p[1]))
    IN [n \in 1..Len(kept) |-> kept[n][2]]

insert_many(c, docs) ==
    IF \E i \in 1..Len(docs) : IsDup(c, docs, i)
    THEN { [raised |-> DuplicateKeyError, coll |-> c \o stored] :
             stored \in { <<>>, SubSeq(docs, 1, FirstDup(c, docs) - 1), NonDups(c, docs) } }
    ELSE { [raised |-> "none", coll |-> c \o docs] }

(***************************************************************************)
(* Construction: __init__ and the three setup procedures.  A setup yields  *)
(* the backend its collection handle is bound to, or the error it raises.  *)
(***************************************************************************)
setup_mongodb(e) == [raised |-> "none", collection |-> "mongodb"]

setup_hcd(e) ==
    IF e.HCD_OK
    THEN [raised |-> "none", collection |-> "hcd"]
    ELSE [raised |-> HcdConfigError, collection |-> "none"]

setup_astra(e) ==
    IF e.ASTRA_OK
    THEN [raised |-> "none", collection |-> "astra"]
    ELSE [raised |-> AstraConfigError, collection |-> "none"]

setup_connection(t, e) ==
    IF t = "mongodb" THEN setup_mongodb(e)
    ELSE IF t = "hcd" THEN setup_hcd(e)
    ELSE IF t = "astra" THEN setup_astra(e)
    ELSE [raised |-> UnsupportedError, collection |-> "none"]

DatabaseManager(e) ==
    LET s == setup_connection(e.DATABASE_TYPE, e)
    IN [raised |-> s.raised, db_type |-> e.DATABASE_TYPE, collection |-> s.collection]

\* get_database_info: the selector of the instance, and a constant status
get_database_info_fixed(t) == [type |-> "mongodb", status |-> "connected"]

get_database_info(t) == [type |-> t, status |-> "connected"]

(***************************************************************************)
(* The state after construction.  The collections exist outside the        *)
(* process: the source may already hold 1..n, the destination a document   *)
(* under DupKey.  The Astra settings are read by _setup_astra alone, which *)
(* runs only when DATABASE_TYPE is 'astra', so they are fixed otherwise.   *)
(***************************************************************************)
Envs ==
    { e \in [DATABASE_TYPE : Backends, HCD_OK : BOOLEAN, ASTRA_OK : BOOLEAN] :
        /\ DatabaseManager(e).raised = "none"
        /\ e.ASTRA_OK = (e.DATABASE_TYPE = "astra") }

HcdPresets == { <<>>, << Doc(DupKey, "b") >> }

Returned(op, arg, raised, val, caught) ==
    [op |-> op, arg |-> arg, raised |-> raised, val |-> val, caught |-> caught]

Init ==
    /\ env \in Envs
    /\ db_type = DatabaseManager(env).db_type
    /\ collection = DatabaseManager(env).collection
    /\ \E n \in SourceSizes, pre \in HcdPresets :
         coll = [b \in Backends |->
                   IF b = "mongodb" THEN [i \in 1..n |-> Doc(i, "a")]
                   ELSE IF b = "hcd" THEN pre ELSE <<>>]
    /\ pc = "idle"
    /\ cursor = 0
    /\ batch = <<>>
    /\ total_synced = 0
    /\ errors = <<>>
    /\ hcd_manager = NoManager
    /\ ret = Returned("__init__", NoKey, "none", NoneVal, "none")
    /\ nops = 0
    /\ constructed = [self |-> db_type, hcd_manager |-> "none"]
    /\ explicit = {}
    /\ deleted = {}
    /\ inserts = <<>>

facadeVars == << env, db_type, collection, constructed >>

syncVars == << pc, cursor, batch, total_synced, errors, hcd_manager, inserts >>

(***************************************************************************)
(* The single-record operations.  They run between migrations: the facade  *)
(* is single-threaded and a migration runs to completion on its thread.    *)
(***************************************************************************)
\* line 86: '_id' not in user_data or not user_data['_id']
NeedsIdAlways(id) == TRUE

NeedsId(id) == id = NoKey

create_user(id, name) ==
    /\ pc = "idle"
    /\ nops < MaxOps
    /\ \E u \in (IF NeedsId(id) THEN Uuids ELSE {id}) :
         LET user_data == Doc(u, name)
             r == insert_one(coll[collection], user_data)
         IN /\ coll' = [coll EXCEPT ![collection] = r.coll]
            /\ ret' = Returned("create_user", Doc(id, name), r.raised,
                               IF r.raised = "none" THEN user_data ELSE NoneVal, "none")
            /\ explicit' = IF r.raised = "none" /\ id # NoKey
                           THEN explicit \cup {Doc(id, name)} ELSE explicit
            /\ deleted' = IF r.raised = "none" THEN deleted \ {u} ELSE deleted
    /\ nops' = nops + 1
    /\ UNCHANGED << facadeVars, syncVars >>

get_all_users ==
    /\ pc = "idle"
    /\ nops < MaxOps
    /\ ret' = Returned("get_all_users", NoKey, "none", find_all(coll[collection]), "none")
    /\ nops' = nops + 1
    /\ UNCHANGED << facadeVars, syncVars, coll, explicit, deleted >>

get_user_by_id(user_id) ==
    /\ pc = "idle"
    /\ nops < MaxOps
    /\ ret' = Returned("get_user_by_id", user_id, "none", find_one(coll[collection], user_id), "none")
    /\ nops' = nops + 1
    /\ UNCHANGED << facadeVars, syncVars, coll, explicit, deleted >>

delete_user(user_id) ==
    /\ pc = "idle"
    /\ nops < MaxOps
    /\ LET r == delete_one(coll[collection], user_id)
       IN /\ coll' = [coll EXCEPT ![collection] = r.coll]
          /\ ret' = Returned("delete_user", user_id, "none", r.deleted_count > 0, "none")
          /\ explicit' = IF r.deleted_count > 0
                         THEN {d \in explicit : d._id # user_id} ELSE explicit
          /\ deleted' = IF r.deleted_count > 0 THEN deleted \cup {user_id} ELSE deleted
    /\ nops' = nops + 1
    /\ UNCHANGED << facadeVars, syncVars >>

GetDatabaseInfo ==
    /\ pc = "idle"
    /\ nops < MaxOps
    /\ ret' = Returned("get_database_info", NoKey, "none", get_database_info(db_type), "none")
    /\ nops' = nops + 1
    /\ UNCHANGED << facadeVars, syncVars, coll, explicit, deleted >>

(***************************************************************************)
(* sync_mongodb_to_hcd, in the steps of its code: the guard and the setup  *)
(* of the destination (lines 113-127), one iteration of the cursor loop    *)
(* (129-138), the final flush (141-147), the return (149-158), and the     *)
(* outer handler (160-161) when the cursor raises.                         *)
(***************************************************************************)
\* line 113: self.db_type != 'mongodb' refuses
IsSource(t) == t = "mongodb"

\* line 114
GuardResult == [success |-> FALSE, message |-> << "Sync only available from MongoDB" >>]

\* line 161
ExceptResultBare(e) == [success |-> FALSE, message |-> << "Sync failed: " >>]

ExceptResult(e) == [success |-> FALSE, message |-> << "Sync failed: ", e >>]

FirstN(s, n) == SubSeq(s, 1, IF Len(s) < n THEN Len(s) ELSE n)

\* lines 149-151
Message(total, errs) ==
    IF errs # <<>>
    THEN << "Successfully synced ", total, " users to DataStax HCD",
            ". ", Len(errs), " users skipped (likely duplicates)" >>
    ELSE << "Successfully synced ", total, " users to DataStax HCD" >>

\* lines 153-158
SuccessResult(total, errs) ==
    [success |-> TRUE, message |-> Message(total, errs),
     synced_count |-> total, errors |-> FirstN(errs, ErrorsReturned)]

\* line 131: len(batch) == batch_size
BatchOver(b) == Len(b) > batch_size

BatchFull(b) == Len(b) = batch_size

\* line 138: batch = []
KeepBatch(b) == b

AfterInsert(b) == <<>>

\* lines 134/144: total_synced += len(batch), when insert_many returned
CountedAlways(total, b, raised) == total + Len(b)

Counted(total, b, raised) == IF raised = "none" THEN total + Len(b) ELSE total

\* lines 136-137/146-147: one entry per document of the failed batch
ErrorEntries(b, e) == [i \in 1..Len(b) |-> << "User ", b[i]._id, e >>]

Skipped(errs, b, raised) == IF raised = "none" THEN errs ELSE errs \o ErrorEntries(b, raised)

\* lines 132-137/142-147: the try/except around one insert_many
TryInsert(dest, b, total, errs) ==
    { [coll |-> o.coll, ok |-> o.raised = "none",
       total_synced |-> Counted(total, b, o.raised),
       errors |-> Skipped(errs, b, o.raised)] : o \in insert_many(dest, b) }

BatchIds(b) == [i \in 1..Len(b) |-> b[i]._id]

sync_start ==
    /\ pc = "idle"
    /\ nops < MaxOps
    /\ nops' = nops + 1
    /\ inserts' = <<>>
    /\ IF ~IsSource(db_type)
       THEN /\ ret' = Returned("sync_mongodb_to_hcd", NoKey, "none", GuardResult, "none")
            /\ UNCHANGED << pc, hcd_manager, constructed >>
       ELSE LET m == DatabaseManager(env)                         \* line 125
                s == setup_hcd(env)                               \* line 127
            IN IF m.raised # "none"
               THEN /\ ret' = Returned("sync_mongodb_to_hcd", NoKey, "none",
                                       ExceptResult(m.raised), m.raised)
                    /\ UNCHANGED << pc, hcd_manager, constructed >>
               ELSE IF s.raised # "none"
               THEN /\ ret' = Returned("sync_mongodb_to_hcd", NoKey, "none",
                                       ExceptResult(s.raised), s.raised)
                    /\ UNCHANGED << pc, hcd_manager, constructed >>
               ELSE /\ hcd_manager' = [db_type |-> "hcd",         \* line 126
                                       collection |-> s.collection]
                    /\ constructed' = [constructed EXCEPT !.hcd_manager = m.db_type]
                    /\ pc' = "loop"
                    /\ ret' = Returned("sync_mongodb_to_hcd", NoKey, "none", NoneVal, "none")
    /\ UNCHANGED << env, db_type, collection, coll, cursor, batch, total_synced, errors,
                    explicit, deleted >>

sync_loop ==
    /\ pc = "loop"
    /\ cursor < Len(coll[collection])
    /\ cursor' = cursor + 1
    /\ LET b == Append(batch, coll[collection][cursor + 1])       \* line 130
       IN IF BatchFull(b)
          THEN \E o \in TryInsert(coll[hcd_manager.collection], b, total_synced, errors) :
                 /\ coll' = [coll EXCEPT ![hcd_manager.collection] = o.coll]
                 /\ total_synced' = o.total_synced
                 /\ errors' = o.errors
                 /\ inserts' = Append(inserts, [ids |-> BatchIds(b), ok |-> o.ok])
                 /\ batch' = AfterInsert(b)
          ELSE /\ batch' = b
               /\ UNCHANGED << coll, total_synced, errors, inserts >>
    /\ UNCHANGED << facadeVars, pc, hcd_manager, ret, nops, explicit, deleted >>

sync_flush ==
    /\ pc = "loop"
    /\ cursor = Len(coll[collection])
    /\ pc' = "return"
    /\ IF batch # <<>>                                            \* line 141
       THEN \E o \in TryInsert(coll[hcd_manager.collection], batch, total_synced, errors) :
              /\ coll' = [coll EXCEPT ![hcd_manager.collection] = o.coll]
              /\ total_synced' = o.total_synced
              /\ errors' = o.errors
              /\ inserts' = Append(inserts, [ids |-> BatchIds(batch), ok |-> o.ok])
       ELSE UNCHANGED << coll, total_synced, errors, inserts >>
    /\ UNCHANGED << facadeVars, cursor, batch, hcd_manager, ret, nops, explicit, deleted >>

\* the frame's locals are gone once the call has returned
Leave ==
    /\ pc' = "idle"
    /\ cursor' = 0
    /\ batch' = <<>>
    /\ total_synced' = 0
    /\ errors' = <<>>
    /\ hcd_manager' = NoManager
    /\ constructed' = [constructed EXCEPT !.hcd_manager = "none"]

sync_return ==
    /\ pc = "return"
    /\ ret' = Returned("sync_mongodb_to_hcd", NoKey, "none",
                       SuccessResult(total_synced, errors), "none")
    /\ Leave
    /\ UNCHANGED << env, db_type, collection, coll, nops, explicit, deleted, inserts >>

\* the cursor raises while the loop asks it for the next document
sync_cursor_fails ==
    /\ pc = "loop"
    /\ ret' = Returned("sync_mongodb_to_hcd", NoKey, "none",
                       ExceptResult(CursorError), CursorError)
    /\ Leave
    /\ UNCHANGED << env, db_type, collection, coll, nops, explicit, deleted, inserts >>

Keys == CrudKeys \cup Uuids

Next ==
    \/ \E id \in CrudKeys \cup {NoKey}, name \in Names : create_user(id, name)
    \/ get_all_users
    \/ \E k \in Keys : get_user_by_id(k)
    \/ \E k \in Keys : delete_user(k)
    \/ GetDatabaseInfo
    \/ sync_start
    \/ sync_loop
    \/ sync_flush
    \/ sync_return
    \/ sync_cursor_fails

Spec == Init /\ [][Next]_vars

(***************************************************************************)
(* What the claims speak of.                                               *)
(***************************************************************************)
SyncReturned == pc = "idle" /\ ret.op = "sync_mongodb_to_hcd"

Source == coll[collection]

Sizes(log) == [i \in 1..Len(log) |-> Len(log[i].ids)]

AllOk(log) == \A i \in 1..Len(log) : log[i].ok

SumOk(log) ==
    LET F[i \in 0..Len(log)] ==
            IF i = 0 THEN 0 ELSE F[i - 1] + (IF log[i].ok THEN Len(log[i].ids) ELSE 0)
    IN F[Len(log)]

AllIds(log) ==
    LET F[i \in 0..Len(log)] == IF i = 0 THEN <<>> ELSE F[i - 1] \o log[i].ids
    IN F[Len(log)]

FailedIds(log) ==
    LET F[i \in 0..Len(log)] ==
            IF i = 0 THEN <<>> ELSE IF log[i].ok THEN F[i - 1] ELSE F[i - 1] \o log[i].ids
    IN F[Len(log)]

EntriesOf(ids) == [i \in 1..Len(ids) |-> << "User ", ids[i], DuplicateKeyError >>]

CeilDiv(n, d) == (n + d - 1) \div d

ExpectedSizes(n) ==
    [i \in 1..CeilDiv(n, batch_size) |-> IF i * batch_size <= n THEN batch_size ELSE n % batch_size]

C1_Outcome ==
    /\ ret.val.success = TRUE
    /\ ret.val.synced_count = Len(Source)
    /\ ret.val.errors = <<>>
    /\ Sizes(inserts) = ExpectedSizes(Len(Source))

SomeFailed(log) == \E i \in 1..Len(log) : ~log[i].ok

NoRetry(log) == Cardinality({AllIds(log)[i] : i \in 1..Len(AllIds(log))}) = Len(AllIds(log))

C2_Outcome ==
    /\ ret.val.success = TRUE
    /\ ret.val.synced_count = SumOk(inserts)
    /\ ret.val.errors = FirstN(EntriesOf(FailedIds(inserts)), ErrorsReturned)
    /\ AllIds(inserts) = BatchIds(Source)
    /\ NoRetry(inserts)

C3_Refused ==
    (SyncReturned /\ ~IsSource(db_type)) =>
        /\ ret.raised = "none"
        /\ ret.val.success = FALSE
        /\ "synced_count" \in DOMAIN ret.val
        /\ ret.val.synced_count = 0
        /\ hcd_manager = NoManager
        /\ constructed.hcd_manager = "none"
        /\ inserts = <<>>

\* C4: when an exception escapes the per-batch handling, the migration does not raise;
\* it returns success=false with a message that carries the exception text, and every
\* batch bulk-inserted before the failure is still stored in the destination.
C4_Escaped ==
    (SyncReturned /\ ret.caught # "none") =>
        /\ ret.raised = "none"
        /\ ret.val.success = FALSE
        /\ ret.val.message = << "Sync failed: ", ret.caught >>
        /\ \A i \in 1..Len(inserts) :
             inserts[i].ok =>
               \A j \in 1..Len(inserts[i].ids) :
                 \E d \in {Source[n] : n \in 1..Len(Source)} :
                   /\ d._id = inserts[i].ids[j]
                   /\ d \in {coll["hcd"][n] : n \in 1..Len(coll["hcd"])}

C4_Witness ==
    /\ SyncReturned
    /\ ret.caught = CursorError
    /\ ret.val.success = FALSE
    /\ Len(inserts) = 2
    /\ inserts[1].ok
    /\ Len(coll["hcd"]) >= batch_size

DeleteStep == nops' = nops + 1 /\ ret'.op = "delete_user"

\* C5: delete_user(k) returns true exactly when a record with key k is stored at the
\* call, and then removes it and nothing else; a key deleted and not created again
\* since gives false, and a delete of a key that is not stored changes nothing.
C5_Delete ==
    [][DeleteStep =>
         LET k == ret'.arg
             c == coll[collection]
         IN /\ ret'.raised = "none"
            /\ ret'.val = (\E i \in 1..Len(c) : c[i]._id = k)
            /\ \A i \in 1..Len(coll'[collection]) : coll'[collection][i]._id # k
            /\ coll'[collection] = SelectSeq(c, LAMBDA d : d._id # k)
            /\ \A b \in Backends \ {collection} : coll'[b] = coll[b]
            /\ (k \in deleted => ret'.val = FALSE)
            /\ (ret'.val = FALSE => coll' = coll)]_vars

C5_Witness ==
    /\ ret.op = "delete_user"
    /\ ret.val = FALSE
    /\ ret.arg \in deleted
    /\ nops >= 2

StoredUnder(c, k) == {c[i] : i \in {j \in 1..Len(c) : c[j]._id = k}}

\* C6: a record created with an explicit key k is what get_user_by_id(k) returns, after
\* any later operations that do not delete k.
C6_GetReturnsCreated ==
    /\ \A d \in explicit : StoredUnder(Source, d._id) = {d}
    /\ ret.op = "get_user_by_id" =>
         \A d \in explicit : d._id = ret.arg => (ret.raised = "none" /\ ret.val = d)

C6_Witness ==
    /\ ret.op = "get_user_by_id"
    /\ ret.val \in explicit
    /\ ret.val._id = ret.arg
    /\ nops >= 2

Unique(c) == Cardinality(Ids(c)) = Len(c)

\* every key of c that cNext still holds has in cNext the record it had in c (the first
\* two cases of the disjunction are the usual places of that record, looked at first)
KeptAsStored(c, cNext) ==
    \/ c = cNext
    \/ LET ids == Ids(cNext)
       IN \A i \in 1..Len(c) :
            c[i]._id \in ids =>
              \/ (i <= Len(cNext) /\ cNext[i] = c[i])
              \/ (i > 1 /\ i - 1 <= Len(cNext) /\ cNext[i - 1] = c[i])
              \/ \E j \in 1..Len(cNext) : cNext[j] = c[i]

CreateStep == nops' = nops + 1 /\ ret'.op = "create_user"

\* C7: no key collision overwrites: create_user with a stored key raises the backend's
\* error and changes nothing, no step (a bulk insert of a migration included) changes
\* the record stored under a key, and every collection holds one record per key at most.
C7_NoOverwrite ==
    /\ [](\A b \in Backends : Unique(coll[b]))
    /\ [][/\ \A b \in Backends : KeptAsStored(coll[b], coll'[b])
          /\ CreateStep =>
               /\ (ret'.arg._id # NoKey /\ ret'.arg._id \in Ids(Source))
                    => ret'.raised = DuplicateKeyError
               /\ ret'.raised # "none" => coll' = coll]_vars

C7_Witness ==
    /\ ret.op = "create_user"
    /\ ret.raised = DuplicateKeyError
    /\ ret.arg._id = DupKey
    /\ StoredUnder(Source, DupKey) # {}
    /\ ret.arg \notin StoredUnder(Source, DupKey)

\* C8 as stated: every facade instance, the temporary destination instance included,
\* reports through get_database_info the selector chosen at its construction.
C8_AsStated ==
    /\ get_database_info(db_type).type = constructed.self
    /\ hcd_manager # NoManager =>
         get_database_info(hcd_manager.db_type).type = constructed.hcd_manager

\* C8, amended: the facade the operations are called on reports the selector chosen at
\* its construction, which no operation changes; the temporary destination instance is
\* constructed with the configured selector and reports 'hcd' once migration has bound it.
C8_Selector ==
    /\ db_type = constructed.self
    /\ constructed.self = env.DATABASE_TYPE
    /\ ret.op = "get_database_info" =>
         ret.val = [type |-> constructed.self, status |-> "connected"]
    /\ hcd_manager # NoManager =>
         /\ hcd_manager.db_type = "hcd"
         /\ constructed.hcd_manager = env.DATABASE_TYPE

C8_Witness ==
    /\ ret.op = "get_database_info"
    /\ ret.val.type = "hcd"
    /\ constructed.self = "hcd"
    /\ nops = MaxOps

\* C9: get_user_by_id(k) returns None and raises nothing whenever no record with key k
\* is stored, whether k was never created or was created and deleted.
C9_Absent ==
    (ret.op = "get_user_by_id" /\ ret.arg \notin Ids(Source)) =>
        (ret.raised = "none" /\ ret.val = NoneVal)

C9_Witness ==
    /\ ret.op = "get_user_by_id"
    /\ ret.arg \in deleted
    /\ ret.val = NoneVal
    /\ Source # <<>>

SyncStep == pc # "idle" \/ (nops' # nops /\ ret'.op = "sync_mongodb_to_hcd")

\* C10: while a migration runs, the records read so far are, in order, those of the
\* bulk inserts made followed by the pending batch; the inserts that returned are the
\* ones total_synced counts and the others the ones errors lists; the pending batch
\* never exceeds 100 records and no bulk insert is empty; a result with success=true
\* has synced_count plus the untruncated number of errors equal to the number of
\* records read; and no step of a migration changes the source collection.
C10_Accounting ==
    /\ [](pc \in {"loop", "return"} =>
            /\ Len(batch) <= batch_size
            /\ \A i \in 1..Len(inserts) : Len(inserts[i].ids) > 0
            /\ cursor <= Len(Source)
            /\ AllIds(inserts) \o (IF pc = "loop" THEN BatchIds(batch) ELSE <<>>)
                 = BatchIds(SubSeq(Source, 1, cursor))
            /\ total_synced = SumOk(inserts)
            /\ [i \in 1..Len(errors) |-> errors[i][2]] = FailedIds(inserts)
            /\ cursor = total_synced + Len(errors) + (IF pc = "loop" THEN Len(batch) ELSE 0))
    /\ [][/\ SyncStep => coll'[collection] = coll[collection]
          /\ (SyncStep /\ pc' = "idle" /\ ret'.val.success = TRUE) =>
               /\ ret'.val.synced_count + Len(errors) = cursor
               /\ cursor = Len(Source)]_vars

C10_Witness ==
    /\ pc = "loop"
    /\ total_synced > 0
    /\ errors # <<>>
    /\ batch # <<>>
    /\ Len(inserts) = 2

====
